---- MODULE Spec2Model ----
(***************************************************************************)
(* Model of qam_gmi_mex.c: MI and GMI of a QAM constellation over AWGN,    *)
(* evaluated for a list of SNR values by an OpenMP parallel loop.          *)
(*                                                                         *)
(* Three groups of state:                                                  *)
(*   - the gateway mexFunction and its parallel driver loop (Spec,         *)
(*     FairSpec, SpecPair);                                                *)
(*   - the index loops of qam_eval_gmi (SpecGmi);                          *)
(*   - insert_zero applied over its domain (SpecInsertZero).               *)
(*                                                                         *)
(* Floating point: Es and sigma^2 are kept as exact reduced fractions;     *)
(* the value of a quadrature sum is an uninterpreted term over its         *)
(* arguments, except where the C arithmetic fixes it (NaN from 0/0, 0 for  *)
(* an empty or all-zero sum).                                              *)
(***************************************************************************)
EXTENDS Integers, Sequences, FiniteSets, TLC

VARIABLES
    \* ---- mexFunction ----
    pc,       \* "idle" | "loop" | "done" | "error"
    err,      \* message id raised by mexErrMsgIdAndTxt, or "none"
    C,        \* constellation, [0..M-1 -> <<re, im>>]
    M,        \* constellation size
    snr,      \* SNR list, [0..N-1 -> dB]
    N,        \* SNR list length
    plhs,     \* indices of plhs[] that hold an output matrix
    mi,       \* data of plhs[0]
    gmi,      \* data of plhs[1]
    Es,       \* symbol energy
    esCalls,  \* number of calls of symbol_energy
    \* ---- omp parallel for ----
    todo,     \* iterations not yet handed to a thread
    tpc,      \* per thread: "idle" | "sigma" | "mi" | "gmi"
    ti,       \* per thread: its private loop index i
    sigma,    \* per storage slot: the value of sigma
    nMi,      \* per iteration: calls of qam_eval_mi made for it
    nGmi,     \* per iteration: calls of qam_eval_gmi made for it
    reads,    \* memory locations read in the loop body, <<thread, iteration, location>>
    writes,   \* memory locations written in the loop body, <<thread, iteration, location>>
    \* ---- a second call of the entry point ----
    callNo,   \* calls made so far
    prev,     \* inputs and outputs of the previous call
    \* ---- qam_eval_gmi index loops ----
    gpc, gM, gm, gk, gb, gi, gl1, gl2, gj, bi, bj,
    numIdx,   \* constellation indices j read by the numerator loop
    denIdx,   \* constellation indices bj read by the denominator loop, in order
    cidx,     \* constellation indices read by the latest step
    \* ---- insert_zero over its domain ----
    zpc, zm, zk, zi, zout

mexvars == <<pc, err, C, M, snr, N, plhs, mi, gmi, Es, esCalls>>
ompvars == <<todo, tpc, ti, sigma, nMi, nGmi, reads, writes>>
callvars == <<callNo, prev>>
gmivars == <<gpc, gM, gm, gk, gb, gi, gl1, gl2, gj, bi, bj, numIdx, denIdx, cidx>>
izvars == <<zpc, zm, zk, zi, zout>>
vars == <<mexvars, ompvars, callvars, gmivars, izvars>>

(***************************************************************************)
(* Bounds of the model.                                                    *)
(***************************************************************************)
MaxM == 6          \* largest constellation given to mexFunction
MaxN == 2          \* longest SNR list
NumThreads == 2    \* threads of the OpenMP team
MaxGmiM == 8       \* largest constellation walked through qam_eval_gmi
MaxBits == 5       \* largest label width given to insert_zero

N_GH == 10

Threads == 1..NumThreads
SnrValues == {0, 20}          \* dB
Amplitudes == {0, 1}          \* 0: every constellation point is zero
Garbage == {"g0", "g1"}       \* what a read past the end of C may return
NoMem == "none"

(***************************************************************************)
(* Integer helpers.                                                        *)
(***************************************************************************)
RECURSIVE Pow2(_)
Pow2(n) == IF n = 0 THEN 1 ELSE 2 * Pow2(n - 1)

RECURSIVE Pow10(_)
Pow10(n) == IF n = 0 THEN 1 ELSE 10 * Pow10(n - 1)

RECURSIVE Gcd(_, _)
Gcd(a, b) == IF b = 0 THEN a ELSE Gcd(b, a % b)

\* a fraction num/den (den > 0) in lowest terms
Frac(n, d) == LET g == Gcd(n, d) IN [num |-> n \div g, den |-> d \div g]

\* a << n on unsigned int; every operand of the model stays below 2^31,
\* where the C shift does not wrap
shl(a, n) == a * Pow2(n)

RECURSIVE BitAnd(_, _)
BitAnd(a, b) ==
    IF a = 0 \/ b = 0 THEN 0
    ELSE (a % 2) * (b % 2) + 2 * BitAnd(a \div 2, b \div 2)

RECURSIVE BitOr(_, _)
BitOr(a, b) ==
    IF a = 0 THEN b
    ELSE IF b = 0 THEN a
    ELSE (IF a % 2 = 1 \/ b % 2 = 1 THEN 1 ELSE 0) + 2 * BitOr(a \div 2, b \div 2)

Bit(v, k) == (v \div Pow2(k)) % 2

IsPow2(n) == \E e \in 0..n : Pow2(e) = n

\* const int m = log2(M): the double truncated towards zero
RECURSIVE ilog2(_)
ilog2(n) == IF n < 2 THEN 0 ELSE 1 + ilog2(n \div 2)

(***************************************************************************)
(* insert_zero and the symbol index built on it.                           *)
(***************************************************************************)
\* mutant: the mask of the upper part starts at bit k instead of bit k+1
insert_zero_mask_at_k(i, k, nb) ==
    LET left == BitAnd(shl(i, 1), shl(shl(1, nb - k) - 1, k))
        right == BitAnd(i, shl(1, k) - 1)
    IN  BitOr(left, right)

insert_zero(i, k, nb) ==
    LET left == BitAnd(shl(i, 1), shl(shl(1, nb - k) - 1, k + 1))
        right == BitAnd(i, shl(1, k) - 1)
        b0 == BitOr(left, right)
    IN  b0

\* mutant: the bit value is added unshifted
SymbolIndexNoShift(i, k, b, m) == insert_zero(i, k, m) + b

\* bi = insert_zero(i, k, m) + (b<<k)
SymbolIndex(i, k, b, m) == insert_zero(i, k, m) + shl(b, k)

(***************************************************************************)
(* Values.  A double is a record: kind "zero", "nan" or "term"; a term is  *)
(* the quadrature sum fn over constellation c at noise level s, mem being  *)
(* what the sum read past the end of c (NoMem when it read nothing there). *)
(***************************************************************************)
NoC == [j \in {} |-> <<0, 0>>]
NoList == <<>>
NoSigma == [num |-> 0, den |-> 1]

Zero == [kind |-> "zero", fn |-> "", c |-> NoC, s |-> NoSigma, mem |-> NoMem]
NaN == [kind |-> "nan", fn |-> "", c |-> NoC, s |-> NoSigma, mem |-> NoMem]
Term(fn, c, s, mem) == [kind |-> "term", fn |-> fn, c |-> c, s |-> s, mem |-> mem]

\* point j of a square 16-QAM grid scaled by a
QamPoint(j, a) == <<a * (2 * (j % 4) - 3), a * (2 * (j \div 4) - 3)>>
MakeC(Mm, a) == [j \in 0..(Mm - 1) |-> QamPoint(j, a)]

Constellations == {MakeC(Mm, a) : Mm \in 1..MaxM, a \in Amplitudes}
SnrLists == UNION {[0..(n - 1) -> SnrValues] : n \in 0..MaxN}

RECURSIVE SumSq(_, _)
SumSq(c, n) ==
    IF n = 0 THEN 0
    ELSE SumSq(c, n - 1) + c[n - 1][1] * c[n - 1][1] + c[n - 1][2] * c[n - 1][2]

\* Es = (sum of |C[i]|^2) / M
symbol_energy(c, Mm) == Frac(SumSq(c, Mm), Mm)

\* sigma = sqrt(Es) * pow(10, -snr/20), held by its square Es * 10^(-snr/10);
\* sigma itself is the non-negative root
Sigma(es, db) == Frac(es.num, es.den * Pow10(db \div 10))

SigmaNonPositive(s) == s.num = 0

\* constellation indices read by qam_eval_mi: C[i], C[j] for i, j < M
MiReadIdx(Mm) == 0..(Mm - 1)

\* constellation indices read by qam_eval_gmi: C[j] for j < M, and C[bi], C[bj]
GmiReadIdx(Mm) ==
    LET m == ilog2(Mm)
    IN  IF m = 0 THEN {}
        ELSE (0..(Mm - 1)) \cup
             {SymbolIndex(t[1], t[2], t[3], m) :
                 t \in (0..((Mm \div 2) - 1)) \X (0..(m - 1)) \X (0..1)}

GmiOutOfBounds(Mm) == \E j \in GmiReadIdx(Mm) : j >= Mm

\* what the words after the end of C may hold when qam_eval_gmi reads them
MemChoices(Mm) == IF GmiOutOfBounds(Mm) THEN Garbage ELSE {NoMem}

\* s = 0: the j = i term is exp(-0/0) = NaN; M = 1, s > 0: log2(1) = 0 throughout
qam_eval_mi(c, Mm, s) ==
    IF SigmaNonPositive(s) THEN NaN
    ELSE IF Mm = 1 THEN Zero
    ELSE Term("MI", c, s, NoMem)

\* m = 0: no loop iteration, GMI = 0/(M*pi) + 0; s = 0: the j = bi term is NaN
qam_eval_gmi(c, Mm, s, mem) ==
    IF ilog2(Mm) = 0 THEN Zero
    ELSE IF SigmaNonPositive(s) THEN NaN
    ELSE Term("GMI", c, s, mem)

(***************************************************************************)
(* mexFunction: argument checks, outputs, symbol energy, parallel loop.    *)
(***************************************************************************)
\* mutant: the loop starts at i = 1
LoopRangeFromOne(n) == 1..(n - 1)

\* for(i=0; i<N; i++)
LoopRange(n) == 0..(n - 1)

\* mutant: sigma is shared by the team
SigmaSlotShared(w) == 1

\* private(sigma): each thread has its own copy
SigmaSlot(w) == w

\* mutant: no barrier, the region ends when the iterations are handed out
LoopFinishedNoBarrier == todo = {}

\* implicit barrier at the end of the parallel for
LoopFinished == todo = {} /\ \A w \in Threads : tpc[w] = "idle"

Init ==
    /\ pc = "idle" /\ err = "none"
    /\ C = NoC /\ M = 0 /\ snr = NoList /\ N = 0
    /\ plhs = {} /\ mi = NoList /\ gmi = NoList
    /\ Es = NoSigma /\ esCalls = 0
    /\ todo = {}
    /\ tpc = [w \in Threads |-> "idle"]
    /\ ti = [w \in Threads |-> 0]
    /\ sigma = [w \in Threads |-> NoSigma]
    /\ nMi = NoList /\ nGmi = NoList
    /\ reads = {} /\ writes = {}
    /\ callNo = 0
    /\ prev = [C |-> NoC, snr |-> NoList, Es |-> NoSigma, mi |-> NoList,
               gmi |-> NoList, p |-> 0]
    /\ gpc = "idle" /\ gM = 0 /\ gm = 0 /\ gk = 0 /\ gb = 0 /\ gi = 0
    /\ gl1 = 0 /\ gl2 = 0 /\ gj = 0 /\ bi = 0 /\ bj = 0
    /\ numIdx = {} /\ denIdx = <<>> /\ cidx = {}
    /\ zpc = "idle" /\ zm = 0 /\ zk = 0 /\ zi = 0 /\ zout = <<>>

\* lines 56-84, single threaded: checks, sizes, outputs, symbol energy
mexFunction(nlhs, nrhs, cin, snrin) ==
    IF nrhs # 2 THEN
        /\ pc' = "error"
        /\ err' = "dsp-library:qam_gmi_mex:nrhs"
        /\ UNCHANGED <<C, M, snr, N, plhs, mi, gmi, Es, esCalls, ompvars>>
    ELSE IF nlhs > 2 THEN
        /\ pc' = "error"
        /\ err' = "dsp-library:qam_gmi_mex:nlhs"
        /\ UNCHANGED <<C, M, snr, N, plhs, mi, gmi, Es, esCalls, ompvars>>
    ELSE
        LET Mm == Cardinality(DOMAIN cin)
            Nn == Cardinality(DOMAIN snrin)
        IN  /\ pc' = "loop"
            /\ err' = "none"
            /\ C' = cin /\ M' = Mm
            /\ snr' = snrin /\ N' = Nn
            /\ plhs' = {0, 1}
            /\ mi' = [i \in 0..(Nn - 1) |-> Zero]
            /\ gmi' = [i \in 0..(Nn - 1) |-> Zero]
            /\ Es' = symbol_energy(cin, Mm)
            /\ esCalls' = 1
            /\ todo' = LoopRange(Nn)
            /\ tpc' = [w \in Threads |-> "idle"]
            /\ nMi' = [i \in 0..(Nn - 1) |-> 0]
            /\ nGmi' = [i \in 0..(Nn - 1) |-> 0]
            /\ reads' = {} /\ writes' = {}
            /\ UNCHANGED <<ti, sigma>>

FirstCall ==
    /\ pc = "idle" /\ callNo = 0
    /\ \E nlhs \in 0..3, nrhs \in 1..3, cin \in Constellations, snrin \in SnrLists :
           mexFunction(nlhs, nrhs, cin, snrin)
    /\ callNo' = 1
    /\ UNCHANGED <<prev, gmivars, izvars>>

\* the team hands iteration i to thread w
Take(w) ==
    /\ pc = "loop" /\ tpc[w] = "idle"
    /\ \E i \in todo :
           /\ todo' = todo \ {i}
           /\ ti' = [ti EXCEPT ![w] = i]
    /\ tpc' = [tpc EXCEPT ![w] = "sigma"]
    /\ UNCHANGED <<mexvars, sigma, nMi, nGmi, reads, writes, callvars, gmivars, izvars>>

\* sigma = sqrt(Es) * pow(10,-snr[i]/20);
StepSigma(w) ==
    /\ pc = "loop" /\ tpc[w] = "sigma"
    /\ sigma' = [sigma EXCEPT ![SigmaSlot(w)] = Sigma(Es, snr[ti[w]])]
    /\ reads' = reads \cup {<<w, ti[w], <<"Es", 0>>>>, <<w, ti[w], <<"snr", ti[w]>>>>}
    /\ writes' = writes \cup {<<w, ti[w], <<"sigma", SigmaSlot(w)>>>>}
    /\ tpc' = [tpc EXCEPT ![w] = "mi"]
    /\ UNCHANGED <<mexvars, todo, ti, nMi, nGmi, callvars, gmivars, izvars>>

\* mi[i] = qam_eval_mi(C, M, sigma);
StepMi(w) ==
    /\ pc = "loop" /\ tpc[w] = "mi"
    /\ mi' = [mi EXCEPT ![ti[w]] = qam_eval_mi(C, M, sigma[SigmaSlot(w)])]
    /\ nMi' = [nMi EXCEPT ![ti[w]] = @ + 1]
    /\ reads' = reads \cup {<<w, ti[w], <<"sigma", SigmaSlot(w)>>>>}
                      \cup {<<w, ti[w], <<"C", j>>>> : j \in MiReadIdx(M)}
    /\ writes' = writes \cup {<<w, ti[w], <<"mi", ti[w]>>>>}
    /\ tpc' = [tpc EXCEPT ![w] = "gmi"]
    /\ UNCHANGED <<pc, err, C, M, snr, N, plhs, gmi, Es, esCalls, todo, ti, sigma,
                   nGmi, callvars, gmivars, izvars>>

\* gmi[i] = qam_eval_gmi(C, M, sigma);
StepGmi(w) ==
    /\ pc = "loop" /\ tpc[w] = "gmi"
    /\ \E mem \in MemChoices(M) :
           gmi' = [gmi EXCEPT ![ti[w]] = qam_eval_gmi(C, M, sigma[SigmaSlot(w)], mem)]
    /\ nGmi' = [nGmi EXCEPT ![ti[w]] = @ + 1]
    /\ reads' = reads \cup {<<w, ti[w], <<"sigma", SigmaSlot(w)>>>>}
                      \cup {<<w, ti[w], <<"C", j>>>> : j \in GmiReadIdx(M)}
    /\ writes' = writes \cup {<<w, ti[w], <<"gmi", ti[w]>>>>}
    /\ tpc' = [tpc EXCEPT ![w] = "idle"]
    /\ UNCHANGED <<pc, err, C, M, snr, N, plhs, mi, Es, esCalls, todo, ti, sigma,
                   nMi, callvars, gmivars, izvars>>

\* the loop is over; mexFunction returns plhs to the caller
Return ==
    /\ pc = "loop" /\ LoopFinished
    /\ pc' = "done"
    /\ UNCHANGED <<err, C, M, snr, N, plhs, mi, gmi, Es, esCalls, ompvars, callvars,
                   gmivars, izvars>>

\* the caller calls again: same constellation, one SNR value changed
SecondCall ==
    /\ pc = "done" /\ callNo = 1
    /\ \E p \in DOMAIN snr : \E v \in SnrValues \ {snr[p]} :
           /\ prev' = [C |-> C, snr |-> snr, Es |-> Es, mi |-> mi, gmi |-> gmi, p |-> p]
           /\ mexFunction(2, 2, C, [snr EXCEPT ![p] = v])
    /\ callNo' = 2
    /\ UNCHANGED <<gmivars, izvars>>

TakeAny == \E w \in Threads : Take(w)
SigmaAny == \E w \in Threads : StepSigma(w)
MiAny == \E w \in Threads : StepMi(w)
GmiAny == \E w \in Threads : StepGmi(w)

Next == FirstCall \/ TakeAny \/ SigmaAny \/ MiAny \/ GmiAny \/ Return

Spec == Init /\ [][Next]_vars

\* the process keeps running: while some thread can step, or the region can
\* end, a step is taken
FairSpec == Spec /\ WF_vars(Next)

NextPair == Next \/ SecondCall

SpecPair == Init /\ [][NextPair]_vars

(***************************************************************************)
(* qam_eval_gmi: the loops over k, b, i, l1, l2 and j, and the             *)
(* constellation indices they read.                                        *)
(***************************************************************************)
GmiCall ==
    /\ gpc = "idle"
    /\ \E Mm \in 1..MaxGmiM :
           /\ gM' = Mm
           /\ gm' = ilog2(Mm)
    /\ gk' = 0
    /\ gpc' = "for_k"
    /\ UNCHANGED <<gb, gi, gl1, gl2, gj, bi, bj, numIdx, denIdx, cidx>>
    /\ UNCHANGED <<mexvars, ompvars, callvars, izvars>>

\* for(k=0; k<m; k++)
ForK ==
    /\ gpc = "for_k"
    /\ IF gk < gm
       THEN gb' = 0 /\ gpc' = "for_b"
       ELSE gpc' = "ret" /\ UNCHANGED gb
    /\ cidx' = {}
    /\ UNCHANGED <<gM, gm, gk, gi, gl1, gl2, gj, bi, bj, numIdx, denIdx>>
    /\ UNCHANGED <<mexvars, ompvars, callvars, izvars>>

\* for(b=0; b<=1; b++)
ForB ==
    /\ gpc = "for_b"
    /\ IF gb <= 1
       THEN gi' = 0 /\ gpc' = "for_i" /\ UNCHANGED gk
       ELSE gk' = gk + 1 /\ gpc' = "for_k" /\ UNCHANGED gi
    /\ UNCHANGED <<gM, gm, gb, gl1, gl2, gj, bi, bj, numIdx, denIdx, cidx>>
    /\ UNCHANGED <<mexvars, ompvars, callvars, izvars>>

\* for(i=0; i<M/2; i++) { bi = insert_zero(i, k, m) + (b<<k);
ForI ==
    /\ gpc = "for_i"
    /\ IF gi < gM \div 2
       THEN /\ bi' = SymbolIndex(gi, gk, gb, gm)
            /\ gl1' = 0
            /\ gpc' = "for_l1"
            /\ UNCHANGED gb
       ELSE /\ gb' = gb + 1
            /\ gpc' = "for_b"
            /\ UNCHANGED <<bi, gl1>>
    /\ UNCHANGED <<gM, gm, gk, gi, gl2, gj, bj, numIdx, denIdx, cidx>>
    /\ UNCHANGED <<mexvars, ompvars, callvars, izvars>>

\* for(l1=0; l1<N_GH; l1++)
ForL1 ==
    /\ gpc = "for_l1"
    /\ IF gl1 < N_GH
       THEN gl2' = 0 /\ gpc' = "for_l2" /\ UNCHANGED gi
       ELSE gi' = gi + 1 /\ gpc' = "for_i" /\ UNCHANGED gl2
    /\ UNCHANGED <<gM, gm, gk, gb, gl1, gj, bi, bj, numIdx, denIdx, cidx>>
    /\ UNCHANGED <<mexvars, ompvars, callvars, izvars>>

\* for(l2=0; l2<N_GH; l2++) { tmp_num = 0.0; tmp_den = 0.0;
ForL2 ==
    /\ gpc = "for_l2"
    /\ IF gl2 < N_GH
       THEN /\ numIdx' = {} /\ denIdx' = <<>>
            /\ gj' = 0
            /\ gpc' = "num"
            /\ UNCHANGED gl1
       ELSE /\ gl1' = gl1 + 1
            /\ gpc' = "for_l1"
            /\ UNCHANGED <<numIdx, denIdx, gj>>
    /\ UNCHANGED <<gM, gm, gk, gb, gi, gl2, bi, bj, cidx>>
    /\ UNCHANGED <<mexvars, ompvars, callvars, izvars>>

\* for(j=0; j<M; j++) tmp_num += ... C[bi]-C[j] ...
Num ==
    /\ gpc = "num"
    /\ IF gj < gM
       THEN /\ numIdx' = numIdx \cup {gj}
            /\ cidx' = {bi, gj}
            /\ gj' = gj + 1
            /\ UNCHANGED gpc
       ELSE /\ gj' = 0
            /\ gpc' = "den"
            /\ cidx' = {}
            /\ UNCHANGED numIdx
    /\ UNCHANGED <<gM, gm, gk, gb, gi, gl1, gl2, bi, bj, denIdx>>
    /\ UNCHANGED <<mexvars, ompvars, callvars, izvars>>

\* for(j=0; j<M/2; j++) { bj = insert_zero(j, k, m) + (b<<k); tmp_den += ... C[bi]-C[bj] ...
Den ==
    /\ gpc = "den"
    /\ IF gj < gM \div 2
       THEN /\ bj' = SymbolIndex(gj, gk, gb, gm)
            /\ denIdx' = Append(denIdx, bj')
            /\ cidx' = {bi, bj'}
            /\ gj' = gj + 1
            /\ UNCHANGED gpc
       ELSE /\ gpc' = "acc"
            /\ cidx' = {}
            /\ UNCHANGED <<bj, denIdx, gj>>
    /\ UNCHANGED <<gM, gm, gk, gb, gi, gl1, gl2, bi, numIdx>>
    /\ UNCHANGED <<mexvars, ompvars, callvars, izvars>>

\* GMI -= w[l1]*w[l2]*log2(tmp_num/tmp_den);
Acc ==
    /\ gpc = "acc"
    /\ gl2' = gl2 + 1
    /\ gpc' = "for_l2"
    /\ UNCHANGED <<gM, gm, gk, gb, gi, gl1, gj, bi, bj, numIdx, denIdx, cidx>>
    /\ UNCHANGED <<mexvars, ompvars, callvars, izvars>>

\* GMI /= M*M_PI; GMI += m; return GMI;
GmiReturn ==
    /\ gpc = "ret"
    /\ gpc' = "done"
    /\ UNCHANGED <<gM, gm, gk, gb, gi, gl1, gl2, gj, bi, bj, numIdx, denIdx, cidx>>
    /\ UNCHANGED <<mexvars, ompvars, callvars, izvars>>

NextGmi ==
    GmiCall \/ ForK \/ ForB \/ ForI \/ ForL1 \/ ForL2 \/ Num \/ Den \/ Acc \/ GmiReturn

SpecGmi == Init /\ [][NextGmi]_vars

(***************************************************************************)
(* insert_zero applied to every compact index of a label width.            *)
(***************************************************************************)
IzStart ==
    /\ zpc = "idle"
    /\ \E m \in 1..MaxBits : \E k \in 0..(m - 1) :
           zm' = m /\ zk' = k
    /\ zi' = 0 /\ zout' = <<>>
    /\ zpc' = "run"
    /\ UNCHANGED <<mexvars, ompvars, callvars, gmivars>>

IzApply ==
    /\ zpc = "run"
    /\ zi < Pow2(zm - 1)
    /\ zout' = Append(zout, insert_zero(zi, zk, zm))
    /\ zi' = zi + 1
    /\ UNCHANGED <<zpc, zm, zk>>
    /\ UNCHANGED <<mexvars, ompvars, callvars, gmivars>>

IzDone ==
    /\ zpc = "run"
    /\ zi = Pow2(zm - 1)
    /\ zpc' = "done"
    /\ UNCHANGED <<zm, zk, zi, zout>>
    /\ UNCHANGED <<mexvars, ompvars, callvars, gmivars>>

NextInsertZero == IzStart \/ IzApply \/ IzDone

SpecInsertZero == Init /\ [][NextInsertZero]_vars

(***************************************************************************)
(* Properties.                                                             *)
(***************************************************************************)
Range(f) == {f[x] : x \in DOMAIN f}
Injective(f) == \A x, y \in DOMAIN f : f[x] = f[y] => x = y
Terminal == pc \in {"done", "error"}

\* C1: for a label width m and bit position k < m, insert_zero maps the compact
\* indices [0, 2^(m-1)) one-to-one onto the m-bit values whose bit k is 0: every
\* result is below 2^m with bit k clear, no result repeats, and once all compact
\* indices are mapped every such value has been produced.
C1_InsertZeroBijection ==
    /\ \A n \in DOMAIN zout : zout[n] < Pow2(zm) /\ Bit(zout[n], zk) = 0
    /\ Injective(zout)
    /\ zpc = "done" =>
           Range(zout) = {v \in 0..(Pow2(zm) - 1) : Bit(v, zk) = 0}

C1_Witness == zpc = "done" /\ zm = 5 /\ zk = 2 /\ Len(zout) = 16

\* C2: when the driver loop has finished, mi[i] and gmi[i] are the estimator
\* results for sigma derived from snr[i], for every i, whatever thread ran the
\* iteration and in whatever order.
C2_OutputMatchesInput ==
    pc = "done" =>
        \A i \in 0..(N - 1) :
            /\ mi[i] = qam_eval_mi(C, M, Sigma(Es, snr[i]))
            /\ \E mem \in MemChoices(M) :
                   gmi[i] = qam_eval_gmi(C, M, Sigma(Es, snr[i]), mem)

C2_Witness ==
    /\ pc = "done" /\ N = 2 /\ M = 4
    /\ snr[0] = 20 /\ snr[1] = 0
    /\ mi[0].kind = "term" /\ mi[0] # mi[1] /\ gmi[0] # gmi[1]

\* C3: in the parallel loop the evaluation of index i writes only mi[i], gmi[i]
\* and its own sigma, reads only the constellation C[0..M-1], Es and snr[i]
\* (and its own sigma), no output slot is written by two threads, nothing writes
\* C, Es or the SNR list, and Es is computed once.
C3_DisjointSlotsSharedInputs ==
    /\ \A e \in writes :
           e[3] \in {<<"mi", e[2]>>, <<"gmi", e[2]>>, <<"sigma", e[1]>>}
    /\ \A e \in reads :
           e[3] \in {<<"Es", 0>>, <<"snr", e[2]>>, <<"sigma", e[1]>>}
                        \cup {<<"C", j>> : j \in 0..(M - 1)}
    /\ \A e1, e2 \in writes :
           (e1[3] = e2[3] /\ e1[3][1] \in {"mi", "gmi"}) => e1[1] = e2[1]
    /\ \A e \in writes : e[3][1] \notin {"C", "Es", "snr"}
    /\ pc \in {"loop", "done"} => esCalls = 1 /\ Es = symbol_energy(C, M)

\* C4: when M is not a power of two, GMI is never evaluated for any SNR index
\* and a call that asked for it ends with error InvalidConstellationSize.
C4_RejectsNonPowerOfTwo ==
    (M >= 1 /\ ~IsPow2(M)) =>
        /\ \A i \in DOMAIN nGmi : nGmi[i] = 0
        /\ (Terminal /\ N > 0) => (pc = "error" /\ err = "InvalidConstellationSize")

\* C5: when the noise level derived for an SNR index is sigma <= 0, neither
\* estimator is called for it and the call ends with error InvalidNoiseLevel.
C5_RejectsNonPositiveSigma ==
    \A i \in DOMAIN nMi :
        SigmaNonPositive(Sigma(Es, snr[i])) =>
            /\ nMi[i] = 0 /\ nGmi[i] = 0
            /\ Terminal => (pc = "error" /\ err = "InvalidNoiseLevel")

\* C6: a call ends either with both output arrays, every one of their N slots
\* computed, and no error, or with an error and no output array; an error is
\* never reported together with an output array.
C6_AllOrNothing ==
    /\ err # "none" => (plhs = {} /\ mi = NoList /\ gmi = NoList)
    /\ pc = "error" => err # "none"
    /\ pc = "done" =>
           /\ err = "none"
           /\ plhs = {0, 1}
           /\ DOMAIN mi = 0..(N - 1) /\ DOMAIN gmi = 0..(N - 1)
           /\ \A i \in 0..(N - 1) : nMi[i] >= 1 /\ nGmi[i] >= 1

C6_Witness ==
    /\ pc = "done" /\ N = 2 /\ plhs = {0, 1}
    /\ \A i \in 0..1 : nMi[i] = 1 /\ nGmi[i] = 1

\* C7: two calls with the same constellation whose SNR lists differ only at
\* index p compute the same Es and the same mi[i], gmi[i] for every i # p.
C7_OtherIndicesUnaffected ==
    (callNo = 2 /\ pc = "done") =>
        /\ Es = prev.Es
        /\ \A i \in 0..(N - 1) :
               i # prev.p => (mi[i] = prev.mi[i] /\ gmi[i] = prev.gmi[i])

\* C8: under fair scheduling of the threads the loop always ends, and when it
\* has ended qam_eval_mi and qam_eval_gmi have each been called exactly once
\* for every SNR index; no index is ever evaluated twice.
C8_TerminatesEachIndexOnce ==
    /\ [](pc = "done" => \A i \in 0..(N - 1) : nMi[i] = 1 /\ nGmi[i] = 1)
    /\ [](\A i \in DOMAIN nMi : nMi[i] <= 1 /\ nGmi[i] <= 1)
    /\ (pc = "loop") ~> (pc = "done")

C8_Witness ==
    /\ pc = "done" /\ N = 2 /\ M = 3
    /\ nMi = [i \in 0..1 |-> 1] /\ nGmi = [i \in 0..1 |-> 1]

\* C9: in qam_eval_gmi with M = 2^m, once the numerator and denominator loops
\* of a pass (k, b, i) are done: bi has bit k equal to b; the denominator read
\* exactly the M/2 indices of [0, M) whose bit k is b, each once; bi is among
\* them; and they are a subset of the numerator's indices, which are [0, M).
C9_DenominatorIndexSet ==
    (gpc = "acc" /\ IsPow2(gM)) =>
        LET sameBit == {v \in 0..(gM - 1) : Bit(v, gk) = gb}
        IN  /\ Bit(bi, gk) = gb
            /\ Len(denIdx) = gM \div 2
            /\ Injective(denIdx)
            /\ Range(denIdx) = sameBit
            /\ bi \in Range(denIdx)
            /\ numIdx = 0..(gM - 1)
            /\ Range(denIdx) \subseteq numIdx

C9_Witness ==
    /\ gpc = "acc" /\ gM = 8 /\ gk = 1 /\ gb = 1 /\ gi = 3
    /\ bi = 7 /\ Range(denIdx) = {2, 3, 6, 7}

\* C10: every index used to read the constellation in qam_eval_gmi lies in
\* [0, M), for every M >= 1.
C10_ReadsInBounds == \A j \in cidx : 0 <= j /\ j < gM
====
